---- MODULE Spec2Model ----
(***************************************************************************)
(* Rejection-policy evaluation of robust-generative-classifier.            *)
(*                                                                         *)
(* Two scripts share one algorithm, attack_run_rejection_policy:           *)
(*   "advertorch"  src/advertorch_attacks.py        (one attack per batch) *)
(*   "art"         src/targeted_evaluation_art.py   (exhaustive sweep over *)
(*                                                   the target labels)    *)
(* A session first calibrates two per-class threshold vectors from the     *)
(* in-distribution data and then runs the evaluation loop and the report.  *)
(*                                                                         *)
(* Abstractions.  The classifier and the attack are external black boxes.  *)
(* A score is one of the values of Scores.  An image is identified by a    *)
(* number; the classifier `model` is a fixed function from images onto all *)
(* score rows, so every combination of clean and adversarial outputs is    *)
(* reachable, and an unchanged image keeps its output.  The attack returns *)
(* any tensor of the shape of its input.  A float distortion is kept by    *)
(* its class: "nan", "zero" (exactly 0.0) or "pos".                        *)
(***************************************************************************)
EXTENDS Integers, Sequences, FiniteSets

(* ------------------------------ bounds -------------------------------- *)
\* hps.n_classes of the checked sessions
NumClasses == 2
\* hps.n_batch_test of the checked sessions (the DataLoader batch size)
BatchSize == 2
\* largest number of correctly classified in-distribution samples per class
MaxPool == 100
\* largest size of the test set read by the advertorch evaluation loop
MaxTest == 3

Classes == 0 .. (NumClasses - 1)
Scores == {0, 1}
NumScores == Cardinality(Scores)

RECURSIVE Pow(_, _)
Pow(b, e) == IF e = 0 THEN 1 ELSE b * Pow(b, e - 1)

Images == 0 .. (Pow(NumScores, NumClasses) - 1)
Scripts == {"advertorch", "art"}

VARIABLES
    script,             \* which of the two scripts runs
    targeted,           \* hps.targeted
    pc,                 \* position of the session
    err,                \* the exception that ended the session, or "none"
    label_id,           \* loop variable of the calibration loop and of the sweep
    in_batch,           \* the in-distribution batch being processed (its images)
    in_ll_list,         \* score pool of the class being calibrated: score -> count
    in_exhausted,       \* the in-distribution loader has delivered its last batch
    threshold_list1,    \* 1st-percentile thresholds, one per calibrated class
    threshold_list2,    \* 2nd-percentile thresholds
    batch,              \* the batch delivered by the test loader, before filtering
    x, y,               \* the batch filtered to the correctly classified samples
    labels,             \* the labels argument of the pending/last attack call
    adv_x,              \* what the attack returned
    id,                 \* target label of the sweep (art)
    n_seen,             \* test samples delivered so far by the evaluation loop
    test_exhausted,     \* the test loader has delivered its last batch
    n_correct,          \* n_correct (advertorch) / n_eval (art)
    n_total,            \* n_total (art): attack attempts
    n_successful_adv,
    n_rejected_adv1,
    n_rejected_adv2,
    l2_distortion_list,
    n_attack_calls,     \* calls of adversary.perturb / attack.generate so far
    committed,          \* history: the counters as they were at the last batch boundary
    report              \* the printed summary, or "none"

vars == <<script, targeted, pc, err, label_id, in_batch, in_ll_list, in_exhausted,
          threshold_list1, threshold_list2, batch, x, y, labels, adv_x, id,
          n_seen, test_exhausted, n_correct, n_total, n_successful_adv,
          n_rejected_adv1, n_rejected_adv2, l2_distortion_list,
          n_attack_calls, committed, report>>

calibVars == <<label_id, in_batch, in_ll_list, in_exhausted, threshold_list1, threshold_list2>>
batchVars == <<batch, x, y, labels, adv_x>>
counterVars == <<n_correct, n_total, n_successful_adv, n_rejected_adv1,
                 n_rejected_adv2, l2_distortion_list>>

(* ------------------------- tensor operations -------------------------- *)
RECURSIVE SumOver(_, _)
SumOver(f, S) ==
    IF S = {} THEN 0
    ELSE LET e == CHOOSE e \in S : TRUE IN f[e] + SumOver(f, S \ {e})

\* the classifier: the score row of an image (digit c of the image number)
model(img) == [c \in Classes |-> (img \div Pow(NumScores, c)) % NumScores]

\* torch argmax / max(dim=1): index of the first maximal value
argmax(row) ==
    CHOOSE k \in Classes :
        /\ \A j \in Classes : row[j] <= row[k]
        /\ \A j \in Classes : j < k => row[j] < row[k]

\* the score of the predicted class (values of output.max(dim=1))
maxval(row) == row[argmax(row)]

\* the classifier's output, predicted label and predicted score, per image
Output == [img \in Images |-> model(img)]
Pred == [img \in Images |-> argmax(model(img))]
Value == [img \in Images |-> maxval(model(img))]

(* --------------------------- data sources ----------------------------- *)
\* a batch is listed once per multiset of its elements: every per-batch
\* quantity of the program is a sum over the samples of the batch
OrderedImages(b) == \A i \in 1 .. (Len(b) - 1) : b[i] <= b[i + 1]

\* batches of the in-distribution loader of one class: 1 .. BatchSize images
InBatches ==
    {b \in UNION {[1 .. n -> Images] : n \in 1 .. BatchSize} : OrderedImages(b)}

Samples == [x : Images, y : Classes]
SampleKey(s) == s.x * NumClasses + s.y
OrderedSamples(b) == \A i \in 1 .. (Len(b) - 1) : SampleKey(b[i]) <= SampleKey(b[i + 1])

\* batches of the test loader: 1 .. n samples
TestBatches(n) ==
    {b \in UNION {[1 .. k -> Samples] : k \in 1 .. n} : OrderedSamples(b)}

(* ---------------------------- calibration ----------------------------- *)
EmptyPool == [v \in Scores |-> 0]

\* len(in_ll_list)
PoolSize(pool) == SumOver(pool, Scores)

\* ll.argmax(dim=1) == y, on a sample of class c
CorrectIdx(img, c) == Pred[img] = c

\* in_ll_list += list(ll_[:, label_id]) over the correctly classified samples
ExtendPool(pool, b, c) ==
    [v \in Scores |->
        pool[v] + Cardinality({i \in 1 .. Len(b) :
                                  CorrectIdx(b[i], c) /\ Output[b[i]][c] = v})]

\* mutant of thresh_idx: the product rounded to the nearest integer
thresh_idx_rounded(pct, n) == (pct * n + 50) \div 100

\* int(p * len(in_ll_list)) for p = pct / 100 (Python float product, truncated;
\* equal to the integer quotient for every length up to 2 000 000)
thresh_idx(pct, n) == (pct * n) \div 100

\* mutant of sorted_at: the pool sorted descending
sorted_at_descending(pool, k) ==
    CHOOSE v \in Scores :
        LET above == SumOver(pool, {u \in Scores : u > v})
        IN  above <= k /\ k < above + pool[v]

\* number of pool elements smaller than v
NumBelow(pool, v) == SumOver(pool, {u \in Scores : u < v})

\* sorted(in_ll_list)[k]: the element at 0-based position k of the ascending pool
sorted_at(pool, k) ==
    CHOOSE v \in Scores : NumBelow(pool, v) <= k /\ k < NumBelow(pool, v) + pool[v]

thresh1(pool) == sorted_at(pool, thresh_idx(1, PoolSize(pool)))
thresh2(pool) == sorted_at(pool, thresh_idx(2, PoolSize(pool)))

Init ==
    /\ script \in Scripts
    /\ targeted \in BOOLEAN
    /\ pc = "calib"
    /\ err = "none"
    /\ label_id = 0
    /\ in_batch = << >>
    /\ in_ll_list = EmptyPool
    /\ in_exhausted = FALSE
    /\ threshold_list1 = << >>
    /\ threshold_list2 = << >>
    /\ batch = << >>
    /\ x = << >>
    /\ y = << >>
    /\ labels = << >>
    /\ adv_x = << >>
    /\ id = 0
    /\ n_seen = 0
    /\ test_exhausted = FALSE
    /\ n_correct = 0
    /\ n_total = 0
    /\ n_successful_adv = 0
    /\ n_rejected_adv1 = 0
    /\ n_rejected_adv2 = 0
    /\ l2_distortion_list = << >>
    /\ n_attack_calls = 0
    /\ committed = <<0, 0, 0, 0, 0, << >> >>
    /\ report = "none"

\* lines 104-107: the in-distribution loader of class label_id yields a batch
CalibFetch ==
    /\ pc = "calib"
    /\ in_batch = << >>
    /\ ~in_exhausted
    /\ \E b \in InBatches :
        /\ PoolSize(ExtendPool(in_ll_list, b, label_id)) <= MaxPool
        /\ in_batch' = b
        /\ in_exhausted' = (Len(b) < BatchSize)
    /\ UNCHANGED <<script, targeted, pc, err, label_id, in_ll_list, threshold_list1,
                   threshold_list2, n_seen, test_exhausted, n_attack_calls, report>>
    /\ UNCHANGED batchVars
    /\ UNCHANGED id
    /\ UNCHANGED counterVars
    /\ UNCHANGED committed

\* lines 109-112: the scores of its correctly classified samples join the pool
CalibAccumulate ==
    /\ pc = "calib"
    /\ in_batch /= << >>
    /\ in_ll_list' = ExtendPool(in_ll_list, in_batch, label_id)
    /\ in_batch' = << >>
    /\ UNCHANGED <<script, targeted, pc, err, label_id, in_exhausted, threshold_list1,
                   threshold_list2, n_seen, test_exhausted, n_attack_calls, report>>
    /\ UNCHANGED batchVars
    /\ UNCHANGED id
    /\ UNCHANGED counterVars
    /\ UNCHANGED committed

\* variant of the threshold step that puts the new 1st-percentile threshold
\* in front of the vector (insert(0, .) for append)
CalibThreshold_prepend ==
    /\ pc = "calib"
    /\ in_batch = << >>
    /\ PoolSize(in_ll_list) > 0
    /\ threshold_list1' = <<thresh1(in_ll_list)>> \o threshold_list1
    /\ threshold_list2' = Append(threshold_list2, thresh2(in_ll_list))
    /\ in_ll_list' = EmptyPool
    /\ in_exhausted' = FALSE
    /\ in_batch' = << >>
    /\ IF label_id + 1 < NumClasses
          THEN /\ label_id' = label_id + 1
               /\ pc' = "calib"
          ELSE /\ label_id' = 0
               /\ pc' = "eval"
    /\ UNCHANGED <<script, targeted, err, n_seen, test_exhausted, n_attack_calls, report>>
    /\ UNCHANGED batchVars
    /\ UNCHANGED id
    /\ UNCHANGED counterVars
    /\ UNCHANGED committed

\* the loader of class label_id is exhausted: the two thresholds of the class
CalibThreshold ==
    /\ pc = "calib"
    /\ in_batch = << >>
    /\ PoolSize(in_ll_list) > 0
    /\ threshold_list1' = Append(threshold_list1, thresh1(in_ll_list))
    /\ threshold_list2' = Append(threshold_list2, thresh2(in_ll_list))
    /\ in_ll_list' = EmptyPool
    /\ in_exhausted' = FALSE
    /\ in_batch' = << >>
    /\ IF label_id + 1 < NumClasses
          THEN /\ label_id' = label_id + 1
               /\ pc' = "calib"
          ELSE /\ label_id' = 0
               /\ pc' = "eval"
    /\ UNCHANGED <<script, targeted, err, n_seen, test_exhausted, n_attack_calls, report>>
    /\ UNCHANGED batchVars
    /\ UNCHANGED id
    /\ UNCHANGED counterVars
    /\ UNCHANGED committed

\* the same step on an empty pool: sorted([])[0] raises IndexError
CalibIndexError ==
    /\ pc = "calib"
    /\ in_batch = << >>
    /\ PoolSize(in_ll_list) = 0
    /\ pc' = "crashed"
    /\ err' = "IndexError"
    /\ UNCHANGED <<script, targeted, n_seen, test_exhausted, n_attack_calls, report>>
    /\ UNCHANGED calibVars
    /\ UNCHANGED batchVars
    /\ UNCHANGED id
    /\ UNCHANGED counterVars
    /\ UNCHANGED committed

NextCalib == CalibFetch \/ CalibAccumulate \/ CalibThreshold \/ CalibIndexError

(* ----------------------------- evaluation ----------------------------- *)
\* hps.n_batch_test = 1 of the sweep
SweepBatchSize == 1

Min(a, b) == IF a <= b THEN a ELSE b

\* mutant of CleanCorrect: the batch is not filtered
CleanCorrect_unfiltered(s) == TRUE

\* pred == y on the clean output of a test sample
CleanCorrect(s) == Pred[s.x] = s.y

\* x[correct_idx] and y[correct_idx]
RECURSIVE FilterX(_)
FilterX(b) ==
    IF b = << >> THEN << >>
    ELSE (IF CleanCorrect(Head(b)) THEN <<Head(b).x>> ELSE << >>) \o FilterX(Tail(b))

RECURSIVE FilterY(_)
FilterY(b) ==
    IF b = << >> THEN << >>
    ELSE (IF CleanCorrect(Head(b)) THEN <<Head(b).y>> ELSE << >>) \o FilterY(Tail(b))

\* the predicted label and its score of the i-th perturbed sample
AdvPred(adv, i) == Pred[adv[i]]
AdvValue(adv, i) == Value[adv[i]]

\* diff.norm(p=2, dim=-1).mean().item(): the mean of an empty tensor is NaN
l2_distortion(xs, adv) ==
    IF Len(xs) = 0 THEN "nan"
    ELSE IF \A i \in 1 .. Len(xs) : adv[i] = xs[i] THEN "zero"
    ELSE "pos"

\* np.mean(l2_distortion_list): NaN on an empty list and on a list holding a NaN
np_mean(l) ==
    IF Len(l) = 0 \/ \E i \in 1 .. Len(l) : l[i] = "nan" THEN "nan"
    ELSE IF \A i \in 1 .. Len(l) : l[i] = "zero" THEN "zero"
    ELSE "pos"

\* score < thresholds[pred] (thresholds is 0-indexed by class)
Below(th, adv, i) == AdvValue(adv, i) < th[AdvPred(adv, i) + 1]

\* advertorch: successful_idx = pred != y
SuccessfulIdx_A(adv, ys, i) == AdvPred(adv, i) /= ys[i]
\* advertorch: reject_idx = values < thresholds[pred], over output[successful_idx]
RejectIdx_A(th, adv, ys, i) == SuccessfulIdx_A(adv, ys, i) /\ Below(th, adv, i)

\* art: success_idx = preds == y_cur
SuccessIdx_T(adv, ycur, i) == AdvPred(adv, i) = ycur[i]
\* art: rej_idx = logits < thresholds[preds], over the whole output
RejIdx_T(th, adv, ycur, i) == Below(th, adv, i)

\* variant of the target loop without the test label_id != id
NextTarget_all(l, from) == from

\* the next id of `for id in range(n_classes): if label_id != id`
NextTarget(l, from) == IF from = l THEN from + 1 ELSE from

\* advertorch lines 140-149: fetch a batch, classify it, keep the correct samples
Classify_A ==
    /\ pc = "eval"
    /\ script = "advertorch"
    /\ ~test_exhausted
    /\ n_seen < MaxTest
    /\ \E b \in TestBatches(Min(BatchSize, MaxTest - n_seen)) :
        /\ batch' = b
        /\ x' = FilterX(b)
        /\ y' = FilterY(b)
        /\ n_correct' = n_correct + Len(FilterX(b))
        /\ n_seen' = n_seen + Len(b)
        /\ test_exhausted' = (Len(b) < BatchSize)
    /\ pc' = "attack"
    /\ UNCHANGED <<script, targeted, err, labels, adv_x, id, n_total,
                   n_successful_adv, n_rejected_adv1, n_rejected_adv2,
                   l2_distortion_list, n_attack_calls, report>>
    /\ UNCHANGED calibVars
    /\ UNCHANGED committed

\* advertorch lines 151-153: adversary.perturb(x, y)
Attack_A ==
    /\ pc = "attack"
    /\ script = "advertorch"
    /\ labels' = y
    /\ \E a \in [1 .. Len(x) -> Images] : adv_x' = a
    /\ n_attack_calls' = n_attack_calls + 1
    /\ pc' = "tally"
    /\ UNCHANGED <<script, targeted, err, batch, x, y, id, n_seen, test_exhausted, report>>
    /\ UNCHANGED calibVars
    /\ UNCHANGED counterVars
    /\ UNCHANGED committed

\* variant of the counter update that assigns the successful count of the
\* batch instead of accumulating it ('=' for '+=' at line 166)
Tally_A_assign ==
    /\ pc = "tally"
    /\ script = "advertorch"
    /\ n_successful_adv' =
           Cardinality({i \in 1 .. Len(adv_x) : SuccessfulIdx_A(adv_x, y, i)})
    /\ n_rejected_adv1' = n_rejected_adv1
           + Cardinality({i \in 1 .. Len(adv_x) : RejectIdx_A(threshold_list1, adv_x, y, i)})
    /\ n_rejected_adv2' = n_rejected_adv2
           + Cardinality({i \in 1 .. Len(adv_x) : RejectIdx_A(threshold_list2, adv_x, y, i)})
    /\ l2_distortion_list' = Append(l2_distortion_list, l2_distortion(x, adv_x))
    /\ batch' = << >>
    /\ x' = << >>
    /\ y' = << >>
    /\ labels' = << >>
    /\ adv_x' = << >>
    /\ pc' = "eval"
    /\ UNCHANGED <<script, targeted, err, id, n_seen, test_exhausted, n_correct,
                   n_total, n_attack_calls, report>>
    /\ UNCHANGED calibVars
    /\ committed' = counterVars'

\* advertorch lines 155-170: distortion and counters of the batch
Tally_A ==
    /\ pc = "tally"
    /\ script = "advertorch"
    /\ n_successful_adv' = n_successful_adv
           + Cardinality({i \in 1 .. Len(adv_x) : SuccessfulIdx_A(adv_x, y, i)})
    /\ n_rejected_adv1' = n_rejected_adv1
           + Cardinality({i \in 1 .. Len(adv_x) : RejectIdx_A(threshold_list1, adv_x, y, i)})
    /\ n_rejected_adv2' = n_rejected_adv2
           + Cardinality({i \in 1 .. Len(adv_x) : RejectIdx_A(threshold_list2, adv_x, y, i)})
    /\ l2_distortion_list' = Append(l2_distortion_list, l2_distortion(x, adv_x))
    /\ batch' = << >>
    /\ x' = << >>
    /\ y' = << >>
    /\ labels' = << >>
    /\ adv_x' = << >>
    /\ pc' = "eval"
    /\ UNCHANGED <<script, targeted, err, id, n_seen, test_exhausted, n_correct,
                   n_total, n_attack_calls, report>>
    /\ UNCHANGED calibVars
    /\ committed' = counterVars'

\* art lines 88-101: the first batch (one sample) of class label_id
Classify_T ==
    /\ pc = "eval"
    /\ script = "art"
    /\ label_id < NumClasses
    /\ \E b \in {c \in TestBatches(SweepBatchSize) : \A i \in 1 .. Len(c) : c[i].y = label_id} :
        /\ batch' = b
        /\ x' = FilterX(b)
        /\ y' = FilterY(b)
        /\ n_correct' = n_correct + Len(FilterX(b))
        /\ n_seen' = n_seen + Len(b)
    /\ id' = NextTarget(label_id, 0)
    /\ pc' = "target"
    /\ UNCHANGED <<script, targeted, err, labels, adv_x, test_exhausted,
                   n_total, n_successful_adv, n_rejected_adv1, n_rejected_adv2,
                   l2_distortion_list, n_attack_calls, report>>
    /\ UNCHANGED calibVars
    /\ UNCHANGED committed

\* art lines 88-91, 133: the test set holds no sample of class label_id
NoSample_T ==
    /\ pc = "eval"
    /\ script = "art"
    /\ label_id < NumClasses
    /\ label_id' = label_id + 1
    /\ UNCHANGED <<script, targeted, pc, err, in_batch, in_ll_list, in_exhausted,
                   threshold_list1, threshold_list2, id, n_seen, test_exhausted, n_attack_calls, report>>
    /\ UNCHANGED batchVars
    /\ UNCHANGED counterVars
    /\ UNCHANGED committed

\* art lines 103-114: attack.generate(x_, y_) towards the target label id
Attack_T ==
    /\ pc = "target"
    /\ script = "art"
    /\ id < NumClasses
    /\ n_total' = n_total + 1
    /\ labels' = [i \in 1 .. Len(x) |-> id]
    /\ \E a \in [1 .. Len(x) -> Images] : adv_x' = a
    /\ n_attack_calls' = n_attack_calls + 1
    /\ pc' = "tally"
    /\ UNCHANGED <<script, targeted, err, batch, x, y, id, n_seen, test_exhausted,
                   n_correct, n_successful_adv, n_rejected_adv1, n_rejected_adv2,
                   l2_distortion_list, report>>
    /\ UNCHANGED calibVars
    /\ UNCHANGED committed

\* art lines 116-129: counters and distortion of one target label
Tally_T ==
    /\ pc = "tally"
    /\ script = "art"
    /\ n_successful_adv' = n_successful_adv
           + Cardinality({i \in 1 .. Len(adv_x) : SuccessIdx_T(adv_x, labels, i)})
    /\ l2_distortion_list' = Append(l2_distortion_list, l2_distortion(x, adv_x))
    /\ n_rejected_adv1' = n_rejected_adv1
           + Cardinality({i \in 1 .. Len(adv_x) : RejIdx_T(threshold_list1, adv_x, labels, i)})
    /\ n_rejected_adv2' = n_rejected_adv2
           + Cardinality({i \in 1 .. Len(adv_x) : RejIdx_T(threshold_list2, adv_x, labels, i)})
    /\ labels' = << >>
    /\ adv_x' = << >>
    /\ id' = NextTarget(label_id, id + 1)
    /\ pc' = "target"
    /\ UNCHANGED <<script, targeted, err, batch, x, y, n_seen, test_exhausted,
                   n_correct, n_total, n_attack_calls, report>>
    /\ UNCHANGED calibVars
    /\ UNCHANGED committed

\* art lines 103, 131-133: every target label done, break, next class
EndTargets_T ==
    /\ pc = "target"
    /\ script = "art"
    /\ id >= NumClasses
    /\ label_id' = label_id + 1
    /\ id' = 0
    /\ batch' = << >>
    /\ x' = << >>
    /\ y' = << >>
    /\ pc' = "eval"
    /\ UNCHANGED <<script, targeted, err, in_batch, in_ll_list, in_exhausted,
                   threshold_list1, threshold_list2, labels, adv_x, n_seen, test_exhausted,
                   n_attack_calls, report>>
    /\ UNCHANGED counterVars
    /\ committed' = counterVars

\* the evaluation loop is over
LoopDone ==
    /\ pc = "eval"
    /\ script = "art" => label_id = NumClasses

\* denominator of success_adv_rate: n_correct (advertorch), n_total (art)
SuccessDenominator == IF script = "art" THEN n_total ELSE n_correct

\* advertorch 174-182, art 135-141, with non-zero denominators: the summary
Report ==
    /\ LoopDone
    /\ n_successful_adv /= 0
    /\ SuccessDenominator /= 0
    /\ script = "advertorch" => n_seen /= 0
    /\ report' = [reject_rate1 |-> <<n_rejected_adv1, n_successful_adv>>,
                  reject_rate2 |-> <<n_rejected_adv2, n_successful_adv>>,
                  success_adv_rate |-> <<n_successful_adv, SuccessDenominator>>,
                  mean_l2 |-> np_mean(l2_distortion_list)]
    /\ pc' = "done"
    /\ UNCHANGED <<script, targeted, err, id, n_seen, test_exhausted, n_attack_calls>>
    /\ UNCHANGED calibVars
    /\ UNCHANGED batchVars
    /\ UNCHANGED counterVars
    /\ UNCHANGED committed

\* the same lines with a zero denominator: Python raises ZeroDivisionError
ReportZeroDivision ==
    /\ LoopDone
    /\ \/ n_successful_adv = 0
       \/ SuccessDenominator = 0
       \/ script = "advertorch" /\ n_seen = 0
    /\ err' = "ZeroDivisionError"
    /\ pc' = "crashed"
    /\ UNCHANGED <<script, targeted, id, n_seen, test_exhausted, n_attack_calls, report>>
    /\ UNCHANGED calibVars
    /\ UNCHANGED batchVars
    /\ UNCHANGED counterVars
    /\ UNCHANGED committed

NextEval ==
    \/ Classify_A \/ Attack_A \/ Tally_A
    \/ Classify_T \/ NoSample_T \/ Attack_T \/ Tally_T \/ EndTargets_T
    \/ Report \/ ReportZeroDivision

Next == NextCalib \/ NextEval

Spec == Init /\ [][Next]_vars

\* advertorch 252-255, art 145-148: SIGINT runs sys.exit(0) wherever the
\* session is; nothing is printed and no local is changed
Interrupt ==
    /\ pc \notin {"done", "crashed", "exited"}
    /\ pc' = "exited"
    /\ UNCHANGED <<script, targeted, err, id, n_seen, test_exhausted, n_attack_calls,
                   committed, report>>
    /\ UNCHANGED calibVars
    /\ UNCHANGED batchVars
    /\ UNCHANGED counterVars

NextInterruptible == Next \/ Interrupt

\* the session with the interrupt signal
SpecInterruptible == Init /\ [][NextInterruptible]_vars

(* ------------------------------- claims ------------------------------- *)
\* every class has its two thresholds: the evaluation phase was entered
Calibrated == Len(threshold_list1) = NumClasses /\ Len(threshold_list2) = NumClasses

\* the session is over (report printed, or ended by an exception)
SessionOver == pc \in {"done", "crashed"}

\* C1: in both scripts, at every point of a session and for both threshold
\* sets, n_rejected[t] <= n_successful_adv <= n_correct.
C1_CounterOrder ==
    /\ n_rejected_adv1 <= n_successful_adv
    /\ n_rejected_adv2 <= n_successful_adv
    /\ n_successful_adv <= n_correct

\* the samples of the pending batch that the script counts as successful
CountedSuccessful(i) ==
    IF script = "art" THEN Pred[adv_x[i]] = labels[i] ELSE Pred[adv_x[i]] /= y[i]

\* the successful samples of the pending batch whose score for the predicted
\* class is strictly below the threshold of that class
StrictlyBelow(th) ==
    {i \in 1 .. Len(adv_x) :
        CountedSuccessful(i) /\ Output[adv_x[i]][Pred[adv_x[i]]] < th[Pred[adv_x[i]] + 1]}

\* C2: the counter update of a batch adds to n_rejected[t] exactly the number
\* of successful adversarial samples of the batch whose predicted-class score is
\* strictly below threshold_vectors[t][p]; failed attacks are never counted.
C2_RejectedGrowth ==
    [][pc = "tally" =>
          /\ n_rejected_adv1' - n_rejected_adv1 = Cardinality(StrictlyBelow(threshold_list1))
          /\ n_rejected_adv2' - n_rejected_adv2 = Cardinality(StrictlyBelow(threshold_list2))]_vars

\* C3: a session whose evaluation ends with no successful adversarial example
\* (zero denominator of the reject rates) completes and reports both reject
\* rates as the undefined sentinel.
C3_UndefinedRateReported ==
    (Calibrated /\ SessionOver /\ n_successful_adv = 0) =>
        /\ pc = "done"
        /\ report /= "none"
        /\ report.reject_rate1 = "undefined"
        /\ report.reject_rate2 = "undefined"

\* C4: a session that leaves calibration without a threshold for every class
\* (some score pool was empty) ended with CalibrationError, and no attack call
\* was made.
C4_EmptyPoolCalibrationError ==
    (pc /= "calib" /\ ~Calibrated) =>
        /\ err = "CalibrationError"
        /\ n_attack_calls = 0

\* number of pool elements below / not above a score
CountLess(pool, t) == Cardinality({<<u, j>> \in Scores \X (1 .. MaxPool + 1) : u < t /\ j <= pool[u]})
CountLessEq(pool, t) == Cardinality({<<u, j>> \in Scores \X (1 .. MaxPool + 1) : u <= t /\ j <= pool[u]})

\* number of pool elements
CountAll(pool) == Cardinality({<<u, j>> \in Scores \X (1 .. MaxPool + 1) : j <= pool[u]})

\* t is the element at 0-based position k of the pool sorted ascending
IsAtPosition(pool, t, k) == CountLess(pool, t) <= k /\ k < CountLessEq(pool, t)

\* the first maximal score of the row of img is the score of class c
FirstMaxAt(img, c) ==
    /\ \A j \in Classes : Output[img][j] <= Output[img][c]
    /\ \A j \in Classes : j < c => Output[img][j] < Output[img][c]

C6_SuccessCriterion ==
    [][pc = "tally" =>
          n_successful_adv' - n_successful_adv =
              Cardinality({i \in 1 .. Len(adv_x) :
                              IF targeted THEN Pred[adv_x[i]] = labels[i]
                                          ELSE Pred[adv_x[i]] /= y[i]})]_vars

\* C7: for every calibrated class the 1st-percentile threshold is at most the
\* 2nd-percentile threshold.
C7_ThresholdOrder ==
    \A c \in 1 .. Len(threshold_list1) :
        c <= Len(threshold_list2) => threshold_list1[c] <= threshold_list2[c]

\* C7 witness: calibration is complete and some class has a 1st-percentile
\* threshold strictly below its 2nd-percentile threshold
C7_Witness ==
    /\ Calibrated
    /\ pc = "eval"
    /\ \E c \in 1 .. NumClasses : threshold_list1[c] < threshold_list2[c]

\* C8: a session in which every attack call returned its input unchanged
\* reports a mean L2 distortion of exactly 0.0, also with empty attacked
\* subsets and with an empty test set.
C8_IdentityAttackZeroDistortion ==
    (/\ Calibrated
     /\ SessionOver
     /\ \A i \in 1 .. Len(l2_distortion_list) : l2_distortion_list[i] /= "pos") =>
        /\ pc = "done"
        /\ report /= "none"
        /\ report.mean_l2 = "zero"

\* the clean prediction of a test sample equals its label
CleanArgmaxIsLabel(s) == FirstMaxAt(s.x, s.y)
CorrectSamples(b) == SelectSeq(b, CleanArgmaxIsLabel)
ImagesOf(b) == [i \in 1 .. Len(b) |-> b[i].x]
LabelsOf(b) == [i \in 1 .. Len(b) |-> b[i].y]

\* C9: the filtered batch is exactly the samples whose clean argmax equals
\* their label, the correct counter grows by its size and only then, the
\* attack is handed exactly this subset, and the success and rejection
\* counters grow by at most its size.
C9_OnlyCorrectAttacked ==
    [][/\ (pc = "eval" /\ pc' \in {"attack", "target"}) =>
            /\ x' = ImagesOf(CorrectSamples(batch'))
            /\ y' = LabelsOf(CorrectSamples(batch'))
            /\ n_correct' = n_correct + Len(CorrectSamples(batch'))
       /\ n_correct' /= n_correct => (pc = "eval" /\ pc' \in {"attack", "target"})
       /\ n_attack_calls' /= n_attack_calls =>
            /\ x = ImagesOf(CorrectSamples(batch))
            /\ x' = x
            /\ Len(adv_x') = Len(x)
            /\ Len(labels') = Len(x)
       /\ pc = "tally" =>
            /\ n_successful_adv' - n_successful_adv <= Len(CorrectSamples(batch))
            /\ n_rejected_adv1' - n_rejected_adv1 <= Len(CorrectSamples(batch))
            /\ n_rejected_adv2' - n_rejected_adv2 <= Len(CorrectSamples(batch))]_vars

\* C9 witness: an attack was called on a batch holding a correctly and a
\* wrongly classified sample
C9_Witness ==
    /\ pc = "tally"
    /\ Len(batch) = 2
    /\ Len(x) = 1
    /\ Len(adv_x) = 1

\* C10: an attack call is made only on a non-empty subset, and a batch whose
\* subset is empty records no attempt, success, rejection or distortion.
C10_AttackOnlyOnNonEmpty ==
    [][/\ n_attack_calls' /= n_attack_calls => x /= << >>
       /\ x = << >> =>
            /\ n_total' = n_total
            /\ n_successful_adv' = n_successful_adv
            /\ n_rejected_adv1' = n_rejected_adv1
            /\ n_rejected_adv2' = n_rejected_adv2
            /\ l2_distortion_list' = l2_distortion_list]_vars

\* C11: an interrupt may arrive at any point of the session; at that moment
\* the evaluation counters (n_correct, n_total, n_successful_adv, both
\* rejected counts, the distortion history) are those of the last batch
\* boundary, never of a partly processed batch, and the session ends
\* without a report.
C11_InterruptAtBatchBoundary ==
    [][Interrupt => (counterVars = committed /\ report' = "none")]_vars

\* C12: every counter (n_correct, n_total, n_successful_adv, both rejected
\* counts, the length of the distortion history) is zero until the
\* evaluation loop starts, and no step of the session decreases or resets it.
C12_CountersMonotone ==
    /\ [](pc = "calib" => counterVars = <<0, 0, 0, 0, 0, << >> >>)
    /\ [][/\ n_correct' >= n_correct
          /\ n_total' >= n_total
          /\ n_successful_adv' >= n_successful_adv
          /\ n_rejected_adv1' >= n_rejected_adv1
          /\ n_rejected_adv2' >= n_rejected_adv2
          /\ Len(l2_distortion_list') >= Len(l2_distortion_list)]_vars

\* C12 witness: an untargeted session has tallied two batches and every
\* counter of the script has grown
C12_Witness ==
    /\ script = "advertorch"
    /\ pc = "eval"
    /\ Len(l2_distortion_list) >= 2
    /\ n_correct >= 2
    /\ n_successful_adv >= 1
    /\ n_rejected_adv1 >= 1
    /\ n_rejected_adv2 >= 1

\* the evaluation loop is running
EvalPhase == pc \in {"eval", "attack", "target", "tally"}

\* C13: when the evaluation loop runs, both threshold vectors have NumClasses
\* entries; entry c was appended by the calibration of class c behind the
\* entries of the classes before it; no step of the evaluation loop changes
\* either vector, only the calibration phase writes them.
C13_ThresholdsFrame ==
    /\ [](EvalPhase => Calibrated)
    /\ [][/\ pc /= "calib" => UNCHANGED <<threshold_list1, threshold_list2>>
          /\ <<threshold_list1, threshold_list2>>' /= <<threshold_list1, threshold_list2>> =>
                /\ pc = "calib"
                /\ Len(threshold_list1) = label_id
                /\ Len(threshold_list2) = label_id
                /\ Len(threshold_list1') = label_id + 1
                /\ Len(threshold_list2') = label_id + 1
                /\ threshold_list1' = Append(threshold_list1, threshold_list1'[label_id + 1])
                /\ threshold_list2' = Append(threshold_list2, threshold_list2'[label_id + 1])]_vars

\* C13 witness: the counter update of a batch is about to run with
\* calibrated vectors whose entries differ between the classes
C13_Witness ==
    /\ pc = "tally"
    /\ Calibrated
    /\ threshold_list1[1] /= threshold_list1[2]
    /\ threshold_list2[1] /= threshold_list2[2]
    /\ n_attack_calls >= 2

\* targets of the sample of class l that the sweep has attempted before
\* reaching target id upto
TargetsUpTo(l, upto) == Cardinality({j \in Classes : j < upto /\ j /= l})

====
